---- MODULE Spec2Model ----
(***************************************************************************)
(* Model of torch_trainer/trainer.py: the batch generators chunks and      *)
(* chunk_shuffle, and the Trainer passes fit, fit_sequence and test with   *)
(* run_callbacks.  The model, the optimizer and the callbacks are external *)
(* collaborators: every call to one of them is one step, which may raise.  *)
(* Arrays are represented by their leading length (shape[0]); the          *)
(* `lengths` array of fit_sequence is represented by its values.           *)
(***************************************************************************)
EXTENDS Integers, Sequences, FiniteSets, TLC

\* Bounds of the explored inputs and of the counters.
MaxLen == 3
MaxBatch == 2
MaxFrames == 2
MaxWork == 3
\* Bounds of the inputs the generator is run on by itself.
MaxChunkLen == 6
MaxChunkBatch == 3

\* Trainer.__init__ default: print_every=25
print_every == 25

VARIABLES
    model_training,  \* self.model's train/eval flag (Module.train(mode))
    _epoch,          \* self._epoch
    _iteration,      \* self._iteration
    log,             \* self.log
    previous_log,    \* self.previous_log
    batchsize,       \* self.batchsize
    clip,            \* self.clip is truthy
    pc,              \* position of the running call, "idle" between calls
    method,          \* the running call: "fit", "fit_sequence", "test"
    lens,            \* lens of the generator: leading length of every array
    length,          \* length of the generator (lens[0])
    i,               \* loop variable i of the generator
    lengths,         \* the lengths array given to fit_sequence
    batch,           \* the batch the generator yielded last
    yielded,         \* the batches the generator has yielded, in order
    frame,           \* loop variable frame of fit_sequence
    input_frame,     \* binding of input_frame/label_frame/pred_frame/loss
    ops,             \* collaborator operations of the current batch, in order
    count,           \* collaborator operations of the current call, counted
    status,          \* how the call ended: "returned" or "raised"
    error,           \* the exception that ended the call
    entry            \* _epoch, log and previous_log when the call started

vars == <<model_training, _epoch, _iteration, log, previous_log, batchsize,
          clip, pc, method, lens, length, i, lengths, batch, yielded,
          frame, input_frame, ops, count, status, error, entry>>

config == <<batchsize, clip>>
generator == <<lens, length, i, lengths>>

OpNames == {"zero_grad", "forward", "loss", "backward", "clip_grad_norm",
            "step", "append", "print_log"}

NoCount == [o \in OpNames |-> 0]
NoBatch == [start |-> 0, size |-> 0]
Unbound == [bound |-> FALSE, start |-> 0, frame |-> 0]
NoEntry == [epoch |-> 0, log |-> <<>>, previous_log |-> <<>>]

Min(a, b) == IF a < b THEN a ELSE b

\* Mutant of SliceLen: the slice is not cut off at the end of the array.
SliceLen_NoClamp(len, start, n) == n

\* arr[i:i + n].shape[0] for an array of leading length len
SliceLen(len, start, n) == Min(start + n, len) - Min(start, len)

\* Mutant of SameLength: any() in place of all().
SameLength_Any(ls) == \E k \in DOMAIN ls : ls[k] = ls[1]

\* all(length == l for l in lens)
SameLength(ls) == \A k \in DOMAIN ls : ls[k] = ls[1]

\* length.max() over the rows start .. start+size-1 of the lengths array
RECURSIVE MaxOf(_, _, _)
MaxOf(arr, from, to) ==
    IF from > to THEN 0
    ELSE LET m == MaxOf(arr, from + 1, to)
         IN IF arr[from] > m THEN arr[from] ELSE m

\* vals of run_callbacks: the keys the Trainer sets itself, with the train
\* keyword of the caller.  The callbacks' values, the losses and the times are
\* opaque values of the collaborators and are left out.
Record(train) ==
    [epoch |-> _epoch, iteration |-> _iteration, train |-> train]

Init ==
    /\ model_training \in BOOLEAN
    /\ _epoch = 0
    /\ _iteration = 0
    /\ log = <<>>
    /\ previous_log = <<>>
    /\ batchsize \in 1..MaxBatch
    /\ clip \in BOOLEAN
    /\ pc = "idle"
    /\ method = "none"
    /\ lens = <<>>
    /\ length = 0
    /\ i = 0
    /\ lengths = <<>>
    /\ batch = NoBatch
    /\ yielded = <<>>
    /\ frame = 0
    /\ input_frame = Unbound
    /\ ops = <<>>
    /\ count = NoCount
    /\ status = "none"
    /\ error = "none"
    /\ entry = NoEntry

\* The arrays a caller may pass: two arrays (X, Y) of any leading lengths.
Args == [1..2 -> 0..MaxLen]

\* The arrays a caller may pass to fit_sequence: inputs, labels, lengths.
SeqArgs == [1..3 -> 0..MaxLen]

\* The values of a lengths array of leading length ls[3].  The generator
\* reads the arrays only once its assertion has passed: when it fails, only
\* their leading lengths have been looked at, and the values are left open.
LengthArrays(ls) ==
    IF \A k \in DOMAIN ls : ls[k] = ls[1]
    THEN [1..ls[3] -> 0..MaxFrames]
    ELSE {<<>>}

\* The epochs counted and the records logged so far, with those one more
\* pass over ls[1] rows can add (passes is 1 for a pass that counts an
\* epoch), stay within MaxWork.
Room(ls, passes) ==
    _epoch + passes + Len(log) + Len(previous_log) + ls[1] <= MaxWork

\* One call of a collaborator: pc moves on, the operation is recorded.
Call(from, op, to) ==
    /\ pc = from
    /\ pc' = to
    /\ ops' = Append(ops, op)
    /\ count' = [count EXCEPT ![op] = @ + 1]

\* A call starts: the caller-visible state at entry is remembered.
Enter(m, ls) ==
    /\ pc = "idle"
    /\ method' = m
    /\ lens' = ls
    /\ entry' = [epoch |-> _epoch, log |-> log, previous_log |-> previous_log]
    /\ batch' = NoBatch
    /\ yielded' = <<>>
    /\ frame' = 0
    /\ input_frame' = Unbound
    /\ ops' = <<>>

\* The generator's first next(): lens, length, the assertion.  errs are the
\* exceptions arrays of different leading lengths can end the call with.
Started(ls, next, cnt, errs) ==
    /\ length' = ls[1]
    /\ i' = 0
    /\ count' = cnt
    /\ IF SameLength(ls)
       THEN /\ pc' = next
            /\ status' = "none"
            /\ error' = "none"
       ELSE /\ pc' = "done"
            /\ status' = "raised"
            /\ error' \in errs

\* for i in range(0, length, n): yield the slices [i:i + n]
ChunksNext(loop, body, after) ==
    /\ pc = loop
    /\ IF i < length
       THEN /\ batch' = [start |-> i, size |-> SliceLen(length, i, batchsize)]
            /\ yielded' = Append(yielded, batch')
            /\ i' = i + batchsize
            /\ ops' = <<>>
            /\ pc' = body
       ELSE /\ pc' = after
            /\ UNCHANGED <<batch, yielded, i, ops>>
    /\ UNCHANGED <<lens, length, lengths>>

\* if self._iteration % self.print_every == 0: self.print_log(...)
\* self._iteration += 1
PrintLog(from, to) ==
    /\ pc = from
    /\ pc' = to
    /\ IF _iteration % print_every = 0
       THEN /\ ops' = Append(ops, "print_log")
            /\ count' = [count EXCEPT !["print_log"] = @ + 1]
       ELSE UNCHANGED <<ops, count>>
    /\ _iteration' = _iteration + 1

\* run_callbacks: the callbacks have run, vals is appended to self.log
RunCallbacks(from, to, train) ==
    /\ Call(from, "append", to)
    /\ log' = Append(log, Record(train))

\* Mutant of Flush: the history is replaced by the current log.
Flush_Replace ==
    /\ previous_log' = log
    /\ log' = <<>>

\* self.previous_log.extend(self.log); self.log = []
Flush ==
    /\ previous_log' = previous_log \o log
    /\ log' = <<>>

Returns ==
    /\ pc' = "done"
    /\ status' = "returned"

(***************************************************************************)
(* Trainer.fit                                                             *)
(***************************************************************************)
\* model.train(True); self._iteration = 0; shuffle; chunks(...)
\* sklearn's shuffle rejects arrays of different lengths itself; if it did
\* not, the assertion of chunks would.
Fit(ls) ==
    /\ Enter("fit", ls)
    /\ Room(ls, 1)
    /\ model_training' = TRUE
    /\ _iteration' = 0
    /\ lengths' = <<>>
    /\ Started(ls, "fit_next", NoCount, {"ValueError", "AssertionError"})
    /\ UNCHANGED <<_epoch, log, previous_log, config>>

FitNext ==
    /\ ChunksNext("fit_next", "fit_zero_grad", "fit_end")
    /\ UNCHANGED <<model_training, _epoch, _iteration, log, previous_log,
                   config, method, frame, input_frame, count, status, error,
                   entry>>

FitZeroGrad ==
    /\ Call("fit_zero_grad", "zero_grad", "fit_forward")
    /\ UNCHANGED <<model_training, _epoch, _iteration, log, previous_log,
                   config, method, generator, batch, yielded, frame, input_frame,
                   status, error, entry>>

FitForward ==
    /\ Call("fit_forward", "forward", "fit_loss")
    /\ UNCHANGED <<model_training, _epoch, _iteration, log, previous_log,
                   config, method, generator, batch, yielded, frame, input_frame,
                   status, error, entry>>

FitLoss ==
    /\ Call("fit_loss", "loss", "fit_backward")
    /\ UNCHANGED <<model_training, _epoch, _iteration, log, previous_log,
                   config, method, generator, batch, yielded, frame, input_frame,
                   status, error, entry>>

\* Mutant of FitBackward: the clipping is skipped.
FitBackward_NoClip ==
    /\ Call("fit_backward", "backward", "fit_step")
    /\ UNCHANGED <<model_training, _epoch, _iteration, log, previous_log,
                   config, method, generator, batch, yielded, frame,
                   input_frame, status, error, entry>>

\* scalar.backward(**self.backward_kwargs); if self.clip: ...
FitBackward ==
    /\ Call("fit_backward", "backward",
            IF clip THEN "fit_clip" ELSE "fit_step")
    /\ UNCHANGED <<model_training, _epoch, _iteration, log, previous_log,
                   config, method, generator, batch, yielded, frame, input_frame,
                   status, error, entry>>

FitClip ==
    /\ Call("fit_clip", "clip_grad_norm", "fit_step")
    /\ UNCHANGED <<model_training, _epoch, _iteration, log, previous_log,
                   config, method, generator, batch, yielded, frame, input_frame,
                   status, error, entry>>

FitStep ==
    /\ Call("fit_step", "step", "fit_callbacks")
    /\ UNCHANGED <<model_training, _epoch, _iteration, log, previous_log,
                   config, method, generator, batch, yielded, frame, input_frame,
                   status, error, entry>>

FitRunCallbacks ==
    /\ RunCallbacks("fit_callbacks", "fit_print", TRUE)
    /\ UNCHANGED <<model_training, _epoch, _iteration, previous_log,
                   config, method, generator, batch, yielded, frame, input_frame,
                   status, error, entry>>

FitPrintLog ==
    /\ PrintLog("fit_print", "fit_next")
    /\ UNCHANGED <<model_training, _epoch, log, previous_log,
                   config, method, generator, batch, yielded, frame, input_frame,
                   status, error, entry>>

\* Mutant of FitEnd: the epoch counter is not incremented.
FitEnd_NoEpoch ==
    /\ pc = "fit_end"
    /\ Flush
    /\ model_training' = FALSE
    /\ Returns
    /\ UNCHANGED <<_epoch, _iteration, config, method, generator, batch,
                   yielded, frame, input_frame, ops, count, error, entry>>

\* self._epoch += 1; flush; self.model.train(False)
FitEnd ==
    /\ pc = "fit_end"
    /\ _epoch' = _epoch + 1
    /\ Flush
    /\ model_training' = FALSE
    /\ Returns
    /\ UNCHANGED <<_iteration, config, method, generator, batch, yielded, frame,
                   input_frame, ops, count, error, entry>>

(***************************************************************************)
(* Trainer.fit_sequence                                                    *)
(***************************************************************************)
\* args = (inputs, labels, lengths); chunk_shuffle(self.batchsize, *args)
\* ls are the leading lengths of the three arrays, arr the values of lengths.
FitSequence(ls, arr) ==
    /\ Enter("fit_sequence", ls)
    /\ Room(ls, 1)
    /\ lengths' = arr
    /\ Started(ls, "seq_next", NoCount, {"AssertionError"})
    /\ UNCHANGED <<model_training, _epoch, _iteration, log, previous_log,
                   config>>

\* the next batch; start = time.time(); iter(range(length.max()))
SeqNext ==
    /\ ChunksNext("seq_next", "seq_frame", "seq_end")
    /\ frame' = 0
    /\ UNCHANGED <<model_training, _epoch, _iteration, log, previous_log,
                   config, method, input_frame, count, status, error, entry>>

\* Mutant of SeqFrame: one time step too many.
SeqFrame_OneMore ==
    /\ pc = "seq_frame"
    /\ pc' = IF frame <= MaxOf(lengths, batch.start + 1,
                               batch.start + batch.size)
             THEN "seq_zero_grad" ELSE "seq_callbacks"
    /\ UNCHANGED <<model_training, _epoch, _iteration, log, previous_log,
                   config, method, generator, batch, yielded, frame,
                   input_frame, ops, count, status, error, entry>>

\* for frame in range(length.max()):
SeqFrame ==
    /\ pc = "seq_frame"
    /\ pc' = IF frame < MaxOf(lengths, batch.start + 1,
                              batch.start + batch.size)
             THEN "seq_zero_grad" ELSE "seq_callbacks"
    /\ UNCHANGED <<model_training, _epoch, _iteration, log, previous_log,
                   config, method, generator, batch, yielded, frame, input_frame,
                   ops, count, status, error, entry>>

SeqZeroGrad ==
    /\ Call("seq_zero_grad", "zero_grad", "seq_forward")
    /\ UNCHANGED <<model_training, _epoch, _iteration, log, previous_log,
                   config, method, generator, batch, yielded, frame, input_frame,
                   status, error, entry>>

\* input_frame = input[:, frame]; label_frame = ...; pred_frame = forward(...)
SeqForward ==
    /\ Call("seq_forward", "forward", "seq_loss")
    /\ input_frame' = [bound |-> TRUE, start |-> batch.start, frame |-> frame]
    /\ UNCHANGED <<model_training, _epoch, _iteration, log, previous_log,
                   config, method, generator, batch, yielded, frame,
                   status, error, entry>>

SeqLoss ==
    /\ Call("seq_loss", "loss", "seq_backward")
    /\ UNCHANGED <<model_training, _epoch, _iteration, log, previous_log,
                   config, method, generator, batch, yielded, frame, input_frame,
                   status, error, entry>>

SeqBackward ==
    /\ Call("seq_backward", "backward",
            IF clip THEN "seq_clip" ELSE "seq_step")
    /\ UNCHANGED <<model_training, _epoch, _iteration, log, previous_log,
                   config, method, generator, batch, yielded, frame, input_frame,
                   status, error, entry>>

SeqClip ==
    /\ Call("seq_clip", "clip_grad_norm", "seq_step")
    /\ UNCHANGED <<model_training, _epoch, _iteration, log, previous_log,
                   config, method, generator, batch, yielded, frame, input_frame,
                   status, error, entry>>

\* self.optimizer.step(), then the next frame of the range
SeqStep ==
    /\ Call("seq_step", "step", "seq_frame")
    /\ frame' = frame + 1
    /\ UNCHANGED <<model_training, _epoch, _iteration, log, previous_log,
                   config, method, generator, batch, yielded, input_frame,
                   status, error, entry>>

\* run_callbacks([input_frame, label_frame], pred_frame, loss=loss.data[0]):
\* the names are those the frame loop bound last; a first batch whose
\* length.max() is 0 has bound none.
SeqRunCallbacks ==
    /\ pc = "seq_callbacks"
    /\ IF input_frame.bound
       THEN /\ RunCallbacks("seq_callbacks", "seq_print", TRUE)
            /\ UNCHANGED <<status, error>>
       ELSE /\ pc' = "done"
            /\ status' = "raised"
            /\ error' = "UnboundLocalError"
            /\ UNCHANGED <<log, ops, count>>
    /\ UNCHANGED <<model_training, _epoch, _iteration, previous_log,
                   config, method, generator, batch, yielded, frame, input_frame,
                   entry>>

SeqPrintLog ==
    /\ PrintLog("seq_print", "seq_next")
    /\ UNCHANGED <<model_training, _epoch, log, previous_log,
                   config, method, generator, batch, yielded, frame, input_frame,
                   status, error, entry>>

\* self._epoch += 1; flush
SeqEnd ==
    /\ pc = "seq_end"
    /\ _epoch' = _epoch + 1
    /\ Flush
    /\ Returns
    /\ UNCHANGED <<model_training, _iteration, config, method, generator,
                   batch, yielded, frame, input_frame, ops, count, error, entry>>

(***************************************************************************)
(* Trainer.test                                                            *)
(***************************************************************************)
\* model.train(False); self._iteration = 0; optimizer.zero_grad(); chunks(...)
Test(ls) ==
    /\ Enter("test", ls)
    /\ Room(ls, 0)
    /\ model_training' = FALSE
    /\ _iteration' = 0
    /\ lengths' = <<>>
    /\ Started(ls, "test_next", [NoCount EXCEPT !["zero_grad"] = 1],
               {"AssertionError"})
    /\ UNCHANGED <<_epoch, log, previous_log, config>>

TestNext ==
    /\ ChunksNext("test_next", "test_forward", "test_end")
    /\ UNCHANGED <<model_training, _epoch, _iteration, log, previous_log,
                   config, method, frame, input_frame, count, status, error,
                   entry>>

TestForward ==
    /\ Call("test_forward", "forward", "test_loss")
    /\ UNCHANGED <<model_training, _epoch, _iteration, log, previous_log,
                   config, method, generator, batch, yielded, frame, input_frame,
                   status, error, entry>>

TestLoss ==
    /\ Call("test_loss", "loss", "test_backward")
    /\ UNCHANGED <<model_training, _epoch, _iteration, log, previous_log,
                   config, method, generator, batch, yielded, frame, input_frame,
                   status, error, entry>>

\* Mutant of TestBackward: the optimizer steps after backward, as in fit.
TestBackward_Step ==
    /\ pc = "test_backward"
    /\ pc' = "test_callbacks"
    /\ ops' = ops \o <<"backward", "step">>
    /\ count' = [count EXCEPT !["backward"] = @ + 1, !["step"] = @ + 1]
    /\ UNCHANGED <<model_training, _epoch, _iteration, log, previous_log,
                   config, method, generator, batch, yielded, frame,
                   input_frame, status, error, entry>>

TestBackward ==
    /\ Call("test_backward", "backward", "test_callbacks")
    /\ UNCHANGED <<model_training, _epoch, _iteration, log, previous_log,
                   config, method, generator, batch, yielded, frame, input_frame,
                   status, error, entry>>

TestRunCallbacks ==
    /\ RunCallbacks("test_callbacks", "test_print", FALSE)
    /\ UNCHANGED <<model_training, _epoch, _iteration, previous_log,
                   config, method, generator, batch, yielded, frame, input_frame,
                   status, error, entry>>

TestPrintLog ==
    /\ PrintLog("test_print", "test_next")
    /\ UNCHANGED <<model_training, _epoch, log, previous_log,
                   config, method, generator, batch, yielded, frame, input_frame,
                   status, error, entry>>

\* Mutant of TestEnd: the model is left in eval mode.
TestEnd_Eval ==
    /\ pc = "test_end"
    /\ count' = [count EXCEPT !["zero_grad"] = @ + 1]
    /\ _iteration' = 0
    /\ Flush
    /\ model_training' = FALSE
    /\ Returns
    /\ UNCHANGED <<_epoch, config, method, generator, batch, yielded, frame,
                   input_frame, ops, error, entry>>

\* optimizer.zero_grad(); self._iteration = 0; flush; model.train(True)
TestEnd ==
    /\ pc = "test_end"
    /\ count' = [count EXCEPT !["zero_grad"] = @ + 1]
    /\ _iteration' = 0
    /\ Flush
    /\ model_training' = TRUE
    /\ Returns
    /\ UNCHANGED <<_epoch, config, method, generator, batch, yielded, frame,
                   input_frame, ops, error, entry>>

(***************************************************************************)
(* Exceptions and the return to the caller                                 *)
(***************************************************************************)
\* The positions at which a collaborator (model, optimizer, callback) runs.
CollaboratorPcs ==
    {"fit_zero_grad", "fit_forward", "fit_loss", "fit_backward", "fit_clip",
     "fit_step", "fit_callbacks",
     "seq_zero_grad", "seq_forward", "seq_loss", "seq_backward", "seq_clip",
     "seq_step", "seq_callbacks",
     "test_forward", "test_loss", "test_backward", "test_callbacks"}

\* Mutant of Raise: a handler flushes the current log before re-raising.
Raise_Flush ==
    /\ pc \in CollaboratorPcs
    /\ pc' = "done"
    /\ status' = "raised"
    /\ error' = "Exception"
    /\ Flush
    /\ UNCHANGED <<model_training, _epoch, _iteration, config, method,
                   generator, batch, yielded, frame, input_frame, ops, count,
                   entry>>

\* The collaborator raises: no handler anywhere, the call ends there.
Raise ==
    /\ pc \in CollaboratorPcs
    /\ pc' = "done"
    /\ status' = "raised"
    /\ error' = "Exception"
    /\ UNCHANGED <<model_training, _epoch, _iteration, log, previous_log,
                   config, method, generator, batch, yielded, frame, input_frame,
                   ops, count, entry>>

\* Control is back at the caller; the locals of the call are gone.
Return ==
    /\ pc = "done"
    /\ pc' = "idle"
    /\ method' = "none"
    /\ lens' = <<>>
    /\ length' = 0
    /\ i' = 0
    /\ lengths' = <<>>
    /\ batch' = NoBatch
    /\ yielded' = <<>>
    /\ frame' = 0
    /\ input_frame' = Unbound
    /\ ops' = <<>>
    /\ count' = NoCount
    /\ status' = "none"
    /\ error' = "none"
    /\ entry' = NoEntry
    /\ UNCHANGED <<model_training, _epoch, _iteration, log, previous_log,
                   config>>

Next ==
    \/ \E ls \in Args : Fit(ls)
    \/ FitNext \/ FitZeroGrad \/ FitForward \/ FitLoss \/ FitBackward
    \/ FitClip \/ FitStep \/ FitRunCallbacks \/ FitPrintLog \/ FitEnd
    \/ \E ls \in SeqArgs : \E arr \in LengthArrays(ls) : FitSequence(ls, arr)
    \/ SeqNext \/ SeqFrame \/ SeqZeroGrad \/ SeqForward \/ SeqLoss
    \/ SeqBackward \/ SeqClip \/ SeqStep \/ SeqRunCallbacks \/ SeqPrintLog
    \/ SeqEnd
    \/ \E ls \in Args : Test(ls)
    \/ TestNext \/ TestForward \/ TestLoss \/ TestBackward
    \/ TestRunCallbacks \/ TestPrintLog \/ TestEnd
    \/ Raise
    \/ Return

Spec == Init /\ [][Next]_vars

(***************************************************************************)
(* The generator run by itself, as in list(chunks(batchsize, *arrs)).      *)
(***************************************************************************)
InitChunks ==
    /\ model_training \in BOOLEAN
    /\ _epoch = 0
    /\ _iteration = 0
    /\ log = <<>>
    /\ previous_log = <<>>
    /\ batchsize \in 1..MaxChunkBatch
    /\ clip = FALSE
    /\ pc = "chunks_call"
    /\ method = "chunks"
    /\ lens \in [1..2 -> 0..MaxChunkLen]
    /\ length = 0
    /\ i = 0
    /\ lengths = <<>>
    /\ batch = NoBatch
    /\ yielded = <<>>
    /\ frame = 0
    /\ input_frame = Unbound
    /\ ops = <<>>
    /\ count = NoCount
    /\ status = "none"
    /\ error = "none"
    /\ entry = NoEntry

\* the first next(): the body runs up to the assertion
ChunksCall ==
    /\ pc = "chunks_call"
    /\ Started(lens, "chunks_next", NoCount, {"AssertionError"})
    /\ UNCHANGED <<model_training, _epoch, _iteration, log, previous_log,
                   config, method, lens, lengths, batch, yielded, frame,
                   input_frame, ops, entry>>

\* every further next(): one batch, or StopIteration
ChunksIterate ==
    /\ ChunksNext("chunks_next", "chunks_next", "exhausted")
    /\ UNCHANGED <<model_training, _epoch, _iteration, log, previous_log,
                   config, method, frame, input_frame, count, status, error,
                   entry>>

NextChunks == ChunksCall \/ ChunksIterate

SpecChunks == InitChunks /\ [][NextChunks]_vars

(***************************************************************************)
(* Properties                                                              *)
(***************************************************************************)
Ceil(a, n) == (a + n - 1) \div n

IsPrefix(s, t) == Len(s) <= Len(t) /\ SubSeq(t, 1, Len(s)) = s

RECURSIVE SumSizes(_)
SumSizes(bs) == IF bs = <<>> THEN 0 ELSE bs[1].size + SumSizes(Tail(bs))

Completed(m) == pc = "done" /\ method = m /\ status = "returned"

Aborted(m) ==
    pc = "done" /\ method = m /\ status = "raised" /\ error = "Exception"

Mismatched == \E a, b \in DOMAIN lens : lens[a] # lens[b]

\* C1: a fit call that started with an empty current log and completes over
\* n = ceil(length/batchsize) batches returns with the iteration counter at n,
\* the epoch counter one higher, the current log empty and the history n
\* records longer.
C1_FitCompleted ==
    (Completed("fit") /\ entry.log = <<>>) =>
        /\ _iteration = Ceil(length, batchsize)
        /\ _epoch = entry.epoch + 1
        /\ log = <<>>
        /\ Len(previous_log) =
               Len(entry.previous_log) + Ceil(length, batchsize)

C1_Witness ==
    /\ Completed("fit")
    /\ entry.log = <<>>
    /\ _iteration = 2
    /\ Len(previous_log) = 2

\* C2: for equal leading lengths L the generator yields ceil(L/batchsize)
\* batches at the start offsets 0, batchsize, 2*batchsize, ...; every batch
\* but the last has batchsize rows, the last has L - batchsize*(count-1), and
\* the sizes sum to L.
C2_ChunksBatches ==
    LET cnt == Ceil(length, batchsize)
    IN /\ Len(yielded) <= cnt
       /\ \A k \in 1..Len(yielded) :
              /\ yielded[k].start = (k - 1) * batchsize
              /\ yielded[k].size =
                     IF k < cnt THEN batchsize
                     ELSE length - batchsize * (cnt - 1)
       /\ pc = "exhausted" =>
              /\ Len(yielded) = cnt
              /\ SumSizes(yielded) = length

C2_Witness ==
    /\ pc = "exhausted"
    /\ batchsize = 2
    /\ length = 5
    /\ Len(yielded) = 3
    /\ yielded[3].size = 1

\* C3: arrays of different leading lengths make the generator fail before it
\* yields a batch, so the call ends raised with no forward pass, no optimizer
\* step and no log record, and with the epoch counter and the history as they
\* were.
C3_MismatchFailsFast ==
    (method # "none" /\ Mismatched) =>
        /\ yielded = <<>>
        /\ pc \in {"chunks_call", "done"}
        /\ pc = "done" =>
               /\ status = "raised"
               /\ error \in {"AssertionError", "ValueError"}
        /\ count["forward"] = 0
        /\ count["step"] = 0
        /\ count["append"] = 0
        /\ log = entry.log
        /\ _epoch = entry.epoch
        /\ previous_log = entry.previous_log

C3_Witness ==
    /\ pc = "done"
    /\ method = "fit_sequence"
    /\ lens[3] # lens[1]
    /\ error = "AssertionError"
    /\ log # <<>>

\* C4: a test call never calls the optimizer's step, runs backward once per
\* batch, and calls zero_grad exactly twice: once before the first batch and
\* once after the last.
C4_TestNeverSteps ==
    method = "test" =>
        /\ count["step"] = 0
        /\ count["clip_grad_norm"] = 0
        /\ pc # "done" => count["zero_grad"] = 1
        /\ pc \in {"test_callbacks", "test_print", "test_next", "test_end"} =>
               count["backward"] = Len(yielded)
        /\ Completed("test") =>
               /\ count["zero_grad"] = 2
               /\ count["backward"] = Ceil(length, batchsize)

C4_Witness ==
    /\ Completed("test")
    /\ count["backward"] = 2
    /\ count["zero_grad"] = 2

\* C5 as stated: after any completed fit or test call the model is in train
\* mode.
C5_TrainModeAfterPass ==
    (Completed("fit") \/ Completed("test")) => model_training = TRUE

\* C5 amended: a completed fit call leaves the model in eval mode
\* (train(False)); a completed test call leaves it in train mode.
C5_ModeAfterPass ==
    /\ Completed("fit") => model_training = FALSE
    /\ Completed("test") => model_training = TRUE

C5_Witness ==
    /\ Completed("fit")
    /\ count["step"] >= 1
    /\ model_training = FALSE

\* C6: in every pass (fit, fit_sequence, test) the record of the k-th batch
\* carries iteration k-1, whatever ran before.
C6_IterationFromZero ==
    pc \in {"fit_print", "seq_print", "test_print"} =>
        log[Len(log)].iteration = Len(yielded) - 1

\* C7 as stated: when a collaborator raises in batch k of a fit or test pass,
\* the current log holds exactly the records of the k-1 batches completed
\* before, the epoch counter is not incremented and the history is unchanged.
C7_AbortedPassLog ==
    (Aborted("fit") \/ Aborted("test")) =>
        /\ Len(log) = Len(yielded) - 1
        /\ _epoch = entry.epoch
        /\ previous_log = entry.previous_log

\* C7 amended: the current log holds the records it held when the pass
\* started, followed by exactly the records of the k-1 batches completed
\* before the failure; no batch is run twice; the epoch counter is not
\* incremented and the history is unchanged.
C7_AbortedPassKeepsLog ==
    (Aborted("fit") \/ Aborted("test")) =>
        /\ Len(log) = Len(entry.log) + Len(yielded) - 1
        /\ IsPrefix(entry.log, log)
        /\ \A k \in 1..(Len(yielded) - 1) :
               log[Len(entry.log) + k] =
                   [epoch |-> entry.epoch, iteration |-> k - 1,
                    train |-> (method = "fit")]
        /\ count["forward"] <= Len(yielded)
        /\ _epoch = entry.epoch
        /\ previous_log = entry.previous_log

C7_Witness ==
    /\ Aborted("test")
    /\ Len(yielded) = 2
    /\ entry.log # <<>>
    /\ Len(log) = Len(entry.log) + 1

\* The collaborator operations of one batch of fit, in the order of the code.
FitOps ==
    <<"zero_grad", "forward", "loss", "backward">>
    \o (IF clip THEN <<"clip_grad_norm">> ELSE <<>>)
    \o <<"step", "append">>

\* C8: every batch of fit runs zero_grad, forward, loss, backward, the
\* clipping (only with a clip threshold), step and the appending of one log
\* record, in this order and once each; the next batch starts only after the
\* record of this one is appended.
C8_FitBatchOrder ==
    method = "fit" =>
        /\ IsPrefix(ops, FitOps \o <<"print_log">>)
        /\ (pc \in {"fit_next", "fit_end"} /\ yielded # <<>>) =>
               IsPrefix(FitOps, ops)
        /\ pc \in {"fit_next", "fit_end"} =>
               Len(log) = Len(entry.log) + Len(yielded)
        /\ pc \in {"fit_next", "fit_end"} =>
               count["step"] = Len(yielded)

C8_Witness ==
    /\ method = "fit"
    /\ pc = "fit_next"
    /\ clip
    /\ Len(yielded) = 2
    /\ ops = FitOps

\* The collaborator operations of one time step of fit_sequence.
SeqCycle ==
    <<"zero_grad", "forward", "loss", "backward">>
    \o (IF clip THEN <<"clip_grad_norm">> ELSE <<>>)
    \o <<"step">>

RECURSIVE Repeat(_, _)
Repeat(s, n) == IF n = 0 THEN <<>> ELSE s \o Repeat(s, n - 1)

BatchMax == MaxOf(lengths, batch.start + 1, batch.start + batch.size)

C10_LogConservation ==
    [][/\ Len(log') + Len(previous_log') =
              Len(log) + Len(previous_log)
              + (IF count'["append"] = count["append"] + 1 THEN 1 ELSE 0)
       /\ IsPrefix(previous_log, previous_log')
       /\ (status' = "returned" /\ status # "returned") =>
              /\ log' = <<>>
              /\ previous_log' = previous_log \o log
              /\ IsPrefix(entry.previous_log \o entry.log, previous_log')
              /\ Len(previous_log') = Len(entry.previous_log)
                     + Len(entry.log) + count'["append"]
      ]_vars

C10_Witness ==
    /\ pc = "done"
    /\ status = "returned"
    /\ entry.log # <<>>
    /\ count["append"] >= 1
    /\ Len(previous_log) > Len(entry.previous_log) + count["append"]

====
